---- MODULE Spec2Model ----
(***************************************************************************)
(* Firestore -> BigQuery change-data-capture pipeline.                     *)
(*                                                                         *)
(*   handleDocumentWrite     appends change records to a tracker log       *)
(*   syncTrackerToMainTable  consolidates a window of the tracker log      *)
(*                           into the main table and writes a checkpoint   *)
(*   backfillCollection      bulk-loads existing documents into the main   *)
(*                           table                                         *)
(*                                                                         *)
(* JavaScript values are tagged records [tp, v]; strings are TLA+ strings, *)
(* so that template strings, split and join are computed on characters.    *)
(***************************************************************************)
EXTENDS Integers, Sequences, FiniteSets, Bags, TLC

VARIABLES
    collectionConfigs,  \* the configurations loaded at process start
    store,       \* store[c]: the documents of config c's collection (group), in query order
    now,         \* the wall clock (milliseconds, abstract)
    tracker,     \* tracker[c]: the rows of config c's tracker table, in insert order
    main,        \* main[c]: the rows of config c's main table, a bag
    checkpoint,  \* checkpoint[c]: lastRunDate of bq-sync/<instance>-<config id>
    sync,        \* the scheduled handler's position (fsUpdatePrimaryTable)
    overlap,     \* the position of an invocation of it that overlaps the first
    backfill,    \* the initialization task's position (backfillCollection)
    lastWrite,   \* history: what the last handleDocumentWrite invocation was given
    pages,       \* history: pages[c], the pages the backfill of config c has fetched
    call,        \* the last direct call of formatDocument: its arguments and its outcome
    lastRun      \* history: lastRun[c], how config c's last consolidation run ended

vars == <<collectionConfigs, store, now, tracker, main, checkpoint, sync, overlap, backfill,
          lastWrite, pages, call, lastRun>>

\* What no operation assigns: the configuration list and the collections.
fixed == <<collectionConfigs, store>>

\* What only a direct call of formatDocument assigns.
direct == <<call>>

----------------------------------------------------------------------------
(* Bounds *)

MaxTime == 3
MaxLog == 3
MaxRecorded == 2
MaxRunTime == 5
MaxRunLog == 1
MaxReplayTime == 6
MaxReplayLog == 3
MaxRerunTime == 5
MaxRerunLog == 2
MaxOverlapTime == 3
MaxOverlapLog == 1

MaxDocs == 4

----------------------------------------------------------------------------
(* JavaScript values *)

Null == [tp |-> "null", v |-> 0]
Str(s) == [tp |-> "string", v |-> s]
Num(n) == [tp |-> "number", v |-> n]
Arr(a) == [tp |-> "array", v |-> a]
Undefined == [tp |-> "undefined", v |-> 0]
Bool(b) == [tp |-> "boolean", v |-> b]
Obj(o) == [tp |-> "object", v |-> o]

\* A native Date and a Firestore Timestamp, by their millisecond instant.
DateOf(ms) == [tp |-> "date", v |-> ms]
TimestampOf(ms) == [tp |-> "timestamp", v |-> ms]

\* An exception thrown in place of a value.
Thrown == [tp |-> "thrown", v |-> 0]

\* typeof value
TypeOf(x) ==
    IF x.tp \in {"null", "array", "object", "date", "timestamp"} THEN "object" ELSE x.tp

\* Boolean(value)
Truthy(x) ==
    CASE x.tp = "null" -> FALSE
      [] x.tp = "string" -> x.v # ""
      [] x.tp = "number" -> x.v # 0
      [] x.tp = "boolean" -> x.v
      [] x.tp = "undefined" -> FALSE
      [] OTHER -> TRUE

----------------------------------------------------------------------------
(* Strings *)

CharAt(s, i) == SubSeq(s, i, i)

\* The index of the first delimiter at or after position i, Len(s) + 1 if none.
RECURSIVE NextDelim(_, _, _)
NextDelim(s, d, i) ==
    IF i > Len(s) THEN Len(s) + 1
    ELSE IF CharAt(s, i) = d THEN i
    ELSE NextDelim(s, d, i + 1)

\* String.prototype.split / SPLIT(value, delimiter) for a one-character
\* delimiter: splitting the empty string gives one empty string.
RECURSIVE SplitFrom(_, _, _)
SplitFrom(s, d, i) ==
    LET j == NextDelim(s, d, i)
    IN  IF j > Len(s) THEN <<SubSeq(s, i, Len(s))>>
        ELSE <<SubSeq(s, i, j - 1)>> \o SplitFrom(s, d, j + 1)

Split(s, d) == SplitFrom(s, d, 1)

\* ARRAY_TO_STRING(arr, delimiter) / Array.prototype.join
RECURSIVE Join(_, _)
Join(a, d) ==
    IF Len(a) = 0 THEN ""
    ELSE IF Len(a) = 1 THEN a[1]
    ELSE a[1] \o d \o Join(Tail(a), d)

NonWordChars == {"/", "{", "}", "-", ",", " "}

\* /\{(\w+)\}/ matches s: some "{", one or more word characters, then "}".
MatchesWildcard(s) ==
    \E i \in 1..Len(s) : \E j \in (i + 2)..Len(s) :
        /\ CharAt(s, i) = "{"
        /\ CharAt(s, j) = "}"
        /\ \A k \in (i + 1)..(j - 1) : CharAt(s, k) \notin NonWordChars

StartsWith(s, c) == Len(s) >= 1 /\ CharAt(s, 1) = c

DigitChars == <<"0", "1", "2", "3", "4", "5", "6", "7", "8", "9">>

\* String(n) for a natural number.
RECURSIVE NumStr(_)
NumStr(n) ==
    IF n < 10 THEN DigitChars[n + 1]
    ELSE NumStr(n \div 10) \o DigitChars[(n % 10) + 1]

\* padStart(2, "0") and padStart(3, "0") of a number's digits.
Pad2(n) == IF n < 10 THEN "0" \o NumStr(n) ELSE NumStr(n)
Pad3(n) == IF n < 10 THEN "00" \o NumStr(n) ELSE IF n < 100 THEN "0" \o NumStr(n) ELSE NumStr(n)

IsDigit(ch) == \E d \in 1..10 : DigitChars[d] = ch

DigitVal(ch) == (CHOOSE d \in 1..10 : DigitChars[d] = ch) - 1

\* The number written by the digits of s at positions i..j, -1 if one of
\* them is not a digit.
RECURSIVE DigitsVal(_, _, _)
DigitsVal(s, i, j) ==
    IF ~IsDigit(CharAt(s, j)) THEN -1
    ELSE IF i = j THEN DigitVal(CharAt(s, j))
    ELSE LET high == DigitsVal(s, i, j - 1)
         IN  IF high = -1 THEN -1 ELSE 10 * high + DigitVal(CharAt(s, j))

----------------------------------------------------------------------------
(* Configuration: the compiled RuntimeCollectionConfig list *)

ConfigUsers ==
    [ id |-> "users",
      collectionPaths |-> <<"users">>,
      collectionGroup |-> "",
      includeParentIdInDocumentId |-> FALSE,
      transformUrl |-> "",
      backfill |-> TRUE,
      fields |-> << [key |-> "name", type |-> "STRING", method |-> "", formater |-> ""],
                    [key |-> "tags", type |-> "ARRAY", method |-> "", formater |-> ""] >> ]

ConfigPosts ==
    [ id |-> "posts",
      collectionPaths |-> <<"users/{uid}/posts">>,
      collectionGroup |-> "posts",
      includeParentIdInDocumentId |-> TRUE,
      transformUrl |-> "https://transform",
      backfill |-> TRUE,
      fields |-> << [key |-> "title", type |-> "STRING", method |-> "", formater |-> ""] >> ]

ConfigIds == 1..Len(collectionConfigs)

NoConfig == 0

FieldKeys(c) == {collectionConfigs[c].fields[i].key : i \in 1..Len(collectionConfigs[c].fields)}

FieldOf(c, k) ==
    CHOOSE f \in {collectionConfigs[c].fields[i] : i \in 1..Len(collectionConfigs[c].fields)} : f.key = k

\* A path pattern matches a document path segment by segment; a segment in
\* braces matches any one segment; the document id follows the pattern.
PatternMatches(pattern, fullPath) ==
    LET pp == Split(pattern, "/")
        dp == Split(fullPath, "/")
    IN  /\ Len(dp) \in {Len(pp), Len(pp) + 1}
        /\ \A i \in 1..Len(pp) : StartsWith(pp[i], "{") \/ pp[i] = dp[i]

ConfigMatches(c, fullPath) ==
    \E i \in 1..Len(collectionConfigs[c].collectionPaths) :
        PatternMatches(collectionConfigs[c].collectionPaths[i], fullPath)

\* The first configuration, in list order, with a matching pattern.
findMatchingConfig(fullPath) ==
    IF \E c \in ConfigIds : ConfigMatches(c, fullPath)
    THEN CHOOSE c \in ConfigIds :
            /\ ConfigMatches(c, fullPath)
            /\ \A d \in ConfigIds : ConfigMatches(d, fullPath) => c <= d
    ELSE NoConfig

\* The accessor compiled for a field without accessor path: data[key].
accessor(track, data) ==
    IF track.key \in DOMAIN data THEN data[track.key] ELSE Null

----------------------------------------------------------------------------
(* formatDocument *)

\* Array.prototype.flat(): arrays nested one level are spliced in.
RECURSIVE Flat(_)
Flat(a) ==
    IF Len(a) = 0 THEN <<>>
    ELSE (IF a[1].tp = "array" THEN a[1].v ELSE <<a[1]>>) \o Flat(Tail(a))

FilterBoolean(a) == SelectSeq(a, Truthy)

\* The time value of an invalid Date (NaN).
InvalidDate == -1

MsPerDay == 86400000

\* Date.prototype.toISOString for an instant of January 1970; a RangeError
\* for an invalid Date is the caller's case.
toISOString(ms) ==
    LET day == ms \div MsPerDay
        inDay == ms % MsPerDay
        hours == inDay \div 3600000
        minutes == (inDay % 3600000) \div 60000
        seconds == (inDay % 60000) \div 1000
    IN  "1970-01-" \o Pad2(day + 1) \o "T" \o Pad2(hours) \o ":" \o Pad2(minutes)
            \o ":" \o Pad2(seconds) \o "." \o Pad3(inDay % 1000) \o "Z"

\* Date strings with a UTC offset, and the instant each denotes.
OffsetDates ==
    { [text |-> "1970-01-01T01:00:01.000+01:00", ms |-> 1000] }

\* new Date(string).getTime() for the date-time forms of January 1970:
\* YYYY-MM-DDTHH:mm:ss.sssZ, the date-only form (UTC midnight) and the
\* strings of OffsetDates; InvalidDate for every other string.
DateParse(s) ==
    LET day == DigitsVal(s, 9, 10)
        hours == DigitsVal(s, 12, 13)
        minutes == DigitsVal(s, 15, 16)
        seconds == DigitsVal(s, 18, 19)
        millis == DigitsVal(s, 21, 23)
    IN  IF \E r \in OffsetDates : r.text = s
        THEN (CHOOSE r \in OffsetDates : r.text = s).ms
        ELSE IF Len(s) \notin {10, 24} \/ SubSeq(s, 1, 8) # "1970-01-" THEN InvalidDate
        ELSE IF day < 1 \/ day > 24 THEN InvalidDate
        ELSE IF Len(s) = 10 THEN (day - 1) * MsPerDay
        ELSE IF \/ CharAt(s, 11) # "T" \/ CharAt(s, 14) # ":" \/ CharAt(s, 17) # ":"
                \/ CharAt(s, 20) # "." \/ CharAt(s, 24) # "Z"
                \/ hours < 0 \/ hours > 23 \/ minutes < 0 \/ minutes > 59
                \/ seconds < 0 \/ seconds > 59 \/ millis < 0
        THEN InvalidDate
        ELSE (day - 1) * MsPerDay + hours * 3600000 + minutes * 60000 + seconds * 1000 + millis

\* The try block of the TIMESTAMP and DATETIME cases: the RangeError of an
\* invalid Date is caught and gives null.
ToIso(value) ==
    CASE value.tp = "number" -> Str(toISOString(value.v))
      [] value.tp = "string" ->
            IF DateParse(value.v) = InvalidDate THEN Null
            ELSE Str(toISOString(DateParse(value.v)))
      [] value.tp \in {"date", "timestamp"} -> Str(toISOString(value.v))
      [] OTHER -> Null

\* JSON.stringify(value): undefined for undefined, a string for the rest.
RECURSIVE Stringify(_)
Stringify(x) ==
    LET RECURSIVE Elements(_)
        Elements(a) ==
            IF Len(a) = 0 THEN <<>>
            ELSE <<IF a[1].tp = "undefined" THEN "null" ELSE Stringify(a[1])>> \o Elements(Tail(a))
        RECURSIVE Members(_)
        Members(keys) ==
            IF keys = {} THEN <<>>
            ELSE LET k == CHOOSE key \in keys : TRUE
                 IN  <<"\"" \o k \o "\":" \o Stringify(x.v[k])>> \o Members(keys \ {k})
    IN  CASE x.tp = "null" -> "null"
          [] x.tp = "string" -> "\"" \o x.v \o "\""
          [] x.tp = "number" -> NumStr(x.v)
          [] x.tp = "boolean" -> IF x.v THEN "true" ELSE "false"
          [] x.tp = "array" -> "[" \o Join(Elements(x.v), ",") \o "]"
          [] x.tp = "object" -> "{" \o Join(Members(DOMAIN x.v), ",") \o "}"
          [] x.tp = "date" -> "\"" \o toISOString(x.v) \o "\""
          [] OTHER -> "{}"

JSONstringify(x) == IF x.tp = "undefined" THEN Undefined ELSE Str(Stringify(x))

\* The per-field transform functions of the configurations: "length" is
\* (value) => value.length, which throws a TypeError on null and undefined.
Method(name, value) ==
    CASE name = "length" ->
            (CASE value.tp \in {"null", "undefined"} -> Thrown
               [] value.tp \in {"string", "array"} -> Num(Len(value.v))
               [] OTHER -> Undefined)
      [] OTHER -> value

\* if (track.method) { value = track.method(value); }
ApplyMethod(track, value) ==
    IF track.method = "" THEN value ELSE Method(track.method, value)

\* has(v, pointer) and get(v, pointer) of json-pointer for a one-token
\* pointer "/key" into an object.
HasPointer(v, pointer) ==
    v.tp = "object" /\ SubSeq(pointer, 2, Len(pointer)) \in DOMAIN v.v

GetPointer(v, pointer) == v.v[SubSeq(pointer, 2, Len(pointer))]

AnyThrown(a) == \E i \in 1..Len(a) : a[i].tp = "thrown"

\* The ARRAY case.
formatArray(track, value) ==
    LET asArray ==
            IF value.tp # "array"
            THEN (IF ~Truthy(value) /\ value # Bool(FALSE) /\ value # Num(0)
                  THEN <<>> ELSE <<value>>)
            ELSE value.v
        picked ==
            [i \in 1..Len(asArray) |->
                LET v == asArray[i]
                    val == IF TypeOf(v) = "object" /\ HasPointer(v, track.formater)
                           THEN GetPointer(v, track.formater) ELSE v
                IN  ApplyMethod(track, val)]
        formatted == IF track.formater # "" THEN Flat(picked) ELSE asArray
        mapped == [i \in 1..Len(formatted) |-> ApplyMethod(track, formatted[i])]
    IN  IF track.formater # "" /\ AnyThrown(picked) THEN Thrown
        ELSE IF AnyThrown(mapped) THEN Thrown
        ELSE Arr(Flat(FilterBoolean(mapped)))

\* The switch on track.type.
formatValue(track, value) ==
    CASE track.type = "STRING" ->
            LET v == ApplyMethod(track, value)
            IN  IF v.tp = "thrown" THEN Thrown
                ELSE IF v.tp # "string" THEN Null ELSE v
      [] track.type = "ARRAY" -> formatArray(track, value)
      [] track.type \in {"TIMESTAMP", "DATETIME"} ->
            LET v == ApplyMethod(track, value)
            IN  IF v.tp = "thrown" THEN Thrown
                ELSE IF ~Truthy(v) THEN Null
                ELSE ToIso(v)
      [] track.type = "JSON" ->
            LET v == IF track.method # "" THEN Method(track.method, value)
                     ELSE JSONstringify(value)
            IN  IF v.tp = "thrown" THEN Thrown
                ELSE IF v.tp \in {"string", "boolean", "number"} THEN Null ELSE v
      [] OTHER -> value

\* `${parentId}-${documentId}` when the configuration asks for it and the
\* data carries a truthy parentId.
formatDocumentId(config, data, documentId) ==
    IF config.includeParentIdInDocumentId /\ "parentId" \in DOMAIN data /\ Truthy(data.parentId)
    THEN data.parentId.v \o "-" \o documentId
    ELSE documentId

\* formatDocument with the document id computed after the webhook's answer
\* has replaced the data.
formatDocument_IdAfterTransform(data, documentId, config, response) ==
    LET working == IF config.transformUrl # "" THEN response ELSE data
    IN  [ documentId |-> formatDocumentId(config, working, documentId),
          data |-> [k \in {config.fields[i].key : i \in 1..Len(config.fields)} |->
                        formatValue(CHOOSE f \in {config.fields[i] : i \in 1..Len(config.fields)} : f.key = k,
                                    accessor([key |-> k], working))] ]

\* The record formatDocument resolves to; response is the body the
\* transform webhook answered with (used when a transformUrl is set).
formatDocument(data, documentId, config, response) ==
    LET working == IF config.transformUrl # "" THEN response ELSE data
    IN  [ documentId |-> formatDocumentId(config, data, documentId),
          data |-> [k \in {config.fields[i].key : i \in 1..Len(config.fields)} |->
                        formatValue(CHOOSE f \in {config.fields[i] : i \in 1..Len(config.fields)} : f.key = k,
                                    accessor([key |-> k], working))] ]

----------------------------------------------------------------------------
(* handleDocumentWrite *)

RECURSIVE LogUpTo(_)
LogUpTo(c) == IF c = 0 THEN 0 ELSE Len(tracker[c]) + LogUpTo(c - 1)

\* The number of rows of all tracker tables.
TotalLog == LogUpTo(Len(collectionConfigs))

\* Mutant: the chain without its last branch, (absent, absent) read as a delete.
ChangeTypeOf_NoReturn(existsBefore, existsAfter) ==
    IF existsAfter
    THEN (IF existsBefore THEN "UPDATED" ELSE "CREATED")
    ELSE "DELETED"

\* The if / else-if chain on (change.before.exists, change.after.exists);
\* "" stands for the bare return of the last branch.
ChangeTypeOf(existsBefore, existsAfter) ==
    IF ~existsBefore /\ existsAfter THEN "CREATED"
    ELSE IF existsBefore /\ existsAfter THEN "UPDATED"
    ELSE IF existsBefore /\ ~existsAfter THEN "DELETED"
    ELSE ""

\* WildcardIndex with the last wildcard segment for the first.
WildcardIndex_Last(configParts) ==
    IF \E i \in 1..Len(configParts) : StartsWith(configParts[i], "{")
    THEN CHOOSE i \in 1..Len(configParts) :
            /\ StartsWith(configParts[i], "{")
            /\ \A j \in (i + 1)..Len(configParts) : ~StartsWith(configParts[j], "{")
    ELSE 0

\* configParts.findIndex(p => p.startsWith("{")), 1-based; 0 when none.
WildcardIndex(configParts) ==
    IF \E i \in 1..Len(configParts) : StartsWith(configParts[i], "{")
    THEN CHOOSE i \in 1..Len(configParts) :
            /\ StartsWith(configParts[i], "{")
            /\ \A j \in 1..(i - 1) : ~StartsWith(configParts[j], "{")
    ELSE 0

\* The loop over config.collectionPaths from index i on; "" is undefined.
RECURSIVE ParentIdFrom(_, _, _)
ParentIdFrom(paths, pathParts, i) ==
    IF i > Len(paths) THEN ""
    ELSE LET configParts == Split(paths[i], "/")
             wildcardIndex == WildcardIndex(configParts)
         IN  IF /\ MatchesWildcard(paths[i])
                /\ wildcardIndex # 0
                /\ wildcardIndex <= Len(pathParts)
                /\ pathParts[wildcardIndex] # ""
             THEN pathParts[wildcardIndex]
             ELSE ParentIdFrom(paths, pathParts, i + 1)

ExtractParentId(config, fullPath) ==
    ParentIdFrom(config.collectionPaths, Split(fullPath, "/"), 1)

\* change.after.id / change.before.id: the last segment of the path.
DocIdOf(fullPath) ==
    LET parts == Split(fullPath, "/") IN parts[Len(parts)]

\* { ...(change.after.data() || {}), ...(parentId && { parentId }) }
WithParentId(data, parentId) ==
    IF parentId = "" THEN data
    ELSE [k \in DOMAIN data \cup {"parentId"} |->
            IF k = "parentId" THEN Str(parentId) ELSE data[k]]

\* TrackerRow with the formatted document spread into a delete's row too.
TrackerRow_Formatted(config, ev, response) ==
    LET changeType == ChangeTypeOf(ev.existsBefore, ev.existsAfter)
        parentId == ExtractParentId(config, ev.fullPath)
        docId == DocIdOf(ev.fullPath)
        doc == formatDocument(WithParentId(ev.data, parentId), docId, config, response)
    IN  [ changeType |-> changeType,
          timestamp |-> now,
          documentId |-> doc.documentId,
          data |-> doc.data ]

\* The row handed to the tracker table's insert.
TrackerRow(config, ev, response) ==
    LET changeType == ChangeTypeOf(ev.existsBefore, ev.existsAfter)
        parentId == ExtractParentId(config, ev.fullPath)
        docId == DocIdOf(ev.fullPath)
    IN  IF changeType = "DELETED"
        THEN [ changeType |-> changeType,
               timestamp |-> now,
               documentId |-> IF config.includeParentIdInDocumentId /\ parentId # ""
                              THEN parentId \o "-" \o docId
                              ELSE docId,
               data |-> <<>> ]
        ELSE LET doc == formatDocument(WithParentId(ev.data, parentId), docId, config, response)
             IN  [ changeType |-> changeType,
                   timestamp |-> now,
                   documentId |-> doc.documentId,
                   data |-> doc.data ]

\* WriteSucceeds with the webhook's failure not awaited: the insert goes on.
WriteSucceeds_FetchIgnored(config, ev, fetchOk, insertOk) == insertOk

\* Mutant: the document is formatted for a delete too, and after.data() of a
\* deleted document throws.
WriteSucceeds_FormatsDeletes(config, ev, fetchOk, insertOk) ==
    /\ insertOk
    /\ ev.existsAfter
    /\ config.transformUrl # "" => fetchOk

\* Whether the try block runs to the end of the insert: fetchOk is the
\* transform webhook answering, insertOk the tracker insert succeeding.
WriteSucceeds(config, ev, fetchOk, insertOk) ==
    /\ insertOk
    /\ (ChangeTypeOf(ev.existsBefore, ev.existsAfter) # "DELETED" /\ config.transformUrl # "") => fetchOk

\* handleDocumentWrite writing the row to the main table as well.
handleDocumentWrite_Direct(ev, response, fetchOk, insertOk) ==
    LET c == findMatchingConfig(ev.fullPath)
        lens == [d \in ConfigIds |-> Len(tracker[d])]
        written == /\ c # NoConfig
                   /\ ChangeTypeOf(ev.existsBefore, ev.existsAfter) # ""
                   /\ WriteSucceeds(collectionConfigs[c], ev, fetchOk, insertOk)
    IN  /\ lastWrite' = [ fullPath |-> ev.fullPath,
                          existsBefore |-> ev.existsBefore,
                          existsAfter |-> ev.existsAfter,
                          ok |-> fetchOk /\ insertOk,
                          lens |-> lens ]
        /\ IF written
           THEN LET row == TrackerRow(collectionConfigs[c], ev, response) IN
                /\ tracker' = [tracker EXCEPT ![c] = Append(@, row)]
                /\ main' = [main EXCEPT ![c] =
                                @ (+) SetToBag({[documentId |-> row.documentId, data |-> row.data]})]
           ELSE UNCHANGED <<tracker, main>>
        /\ UNCHANGED <<fixed, direct, pages, overlap, now, checkpoint, sync, backfill, lastRun>>

handleDocumentWrite(ev, response, fetchOk, insertOk) ==
    LET c == findMatchingConfig(ev.fullPath)
        lens == [d \in ConfigIds |-> Len(tracker[d])]
    IN  /\ lastWrite' = [ fullPath |-> ev.fullPath,
                          existsBefore |-> ev.existsBefore,
                          existsAfter |-> ev.existsAfter,
                          ok |-> fetchOk /\ insertOk,
                          lens |-> lens ]
        /\ IF c = NoConfig
           THEN UNCHANGED tracker
           ELSE IF ChangeTypeOf(ev.existsBefore, ev.existsAfter) = ""
           THEN UNCHANGED tracker
           ELSE IF ~WriteSucceeds(collectionConfigs[c], ev, fetchOk, insertOk)
           THEN UNCHANGED tracker
           ELSE tracker' = [tracker EXCEPT ![c] =
                                Append(@, TrackerRow(collectionConfigs[c], ev, response))]
        /\ UNCHANGED <<fixed, direct, pages, overlap, now, main, checkpoint, sync, backfill, lastRun>>

----------------------------------------------------------------------------
(* syncTrackerToMainTable: the query script *)

HundredYears == 1000

NoCheckpoint == -1

\* StartTimeOf with the window reaching one instant before the checkpoint.
StartTimeOf_Overlap(lastRunDate, clock) ==
    IF lastRunDate # NoCheckpoint THEN lastRunDate - 1 ELSE clock - HundredYears

\* const startTime = lastRunDate ? ... : DateTime.now().minus({ years: 100 })
\* (ISO strings of millisecond instants: the round trip keeps the instant).
StartTimeOf(lastRunDate, clock) ==
    IF lastRunDate # NoCheckpoint THEN lastRunDate ELSE clock - HundredYears

\* A tracker column as the table stores it: a NULLABLE column that the
\* inserted row does not set is NULL, a REPEATED one is the empty array.
Column(c, row, k) ==
    LET given == IF k \in DOMAIN row.data THEN row.data[k] ELSE Null
    IN  IF FieldOf(c, k).type = "ARRAY"
        THEN (IF given.tp = "array" THEN given ELSE Arr(<<>>))
        ELSE given

\* x BETWEEN a AND b
Between(x, a, b) == a <= x /\ x <= b

RowsOf(log) == {log[i] : i \in 1..Len(log)}

\* COALESCE((SELECT MAX(timestamp) ... changeType = 'CREATED'), TIMESTAMP('1970-01-01'))
MaxCreated(log, id) ==
    LET created == {i \in 1..Len(log) : log[i].documentId = id /\ log[i].changeType = "CREATED"}
    IN  IF created = {} THEN 0
        ELSE CHOOSE t \in {log[i].timestamp : i \in created} :
                \A i \in created : log[i].timestamp <= t

\* The indexes of the rows n that pass the WHERE clause, for one documentId.
Aggregated(log, id, startTime, endTime) ==
    {i \in 1..Len(log) :
        /\ log[i].documentId = id
        /\ log[i].timestamp >= MaxCreated(log, id)
        /\ Between(log[i].timestamp, startTime, endTime)}

\* GROUP BY documentId: the ids of tmp.
TmpIds(log, startTime, endTime) ==
    {log[i].documentId : i \in {j \in 1..Len(log) :
        Aggregated(log, log[j].documentId, startTime, endTime) # {}}}

\* (SELECT COUNTIF(changeType = kind) ... timestamp BETWEEN startTime AND endTime)
CountIf(log, id, kind, startTime, endTime) ==
    Cardinality({i \in 1..Len(log) :
        /\ log[i].documentId = id
        /\ log[i].changeType = kind
        /\ Between(log[i].timestamp, startTime, endTime)})

\* The expression under ARRAY_AGG: ARRAY_TO_STRING(col, ",") for an ARRAY
\* field, the column itself otherwise.
Selected(c, row, k) ==
    LET col == Column(c, row, k)
    IN  IF FieldOf(c, k).type = "ARRAY"
        THEN Str(Join([i \in 1..Len(col.v) |-> col.v[i].v], ","))
        ELSE col

\* ARRAY_AGG(expr IGNORE NULLS ORDER BY timestamp DESC)[OFFSET(0)]: the
\* values the aggregate can take. Rows of equal timestamp are in no defined
\* order, so each non-null value at the greatest timestamp is possible.
AggValues(c, log, id, k, startTime, endTime) ==
    LET nonNull == {i \in Aggregated(log, id, startTime, endTime) : Selected(c, log[i], k) # Null}
        latest == {i \in nonNull : \A j \in nonNull : log[j].timestamp <= log[i].timestamp}
    IN  IF nonNull = {} THEN {Null}
        ELSE {Selected(c, log[i], k) : i \in latest}

\* The temp tables the CREATE TEMP TABLE statement can produce.
TmpTables(c, log, startTime, endTime) ==
    LET ids == TmpIds(log, startTime, endTime)
        values == UNION {UNION {AggValues(c, log, id, k, startTime, endTime) : k \in FieldKeys(c)} : id \in ids}
    IN  {t \in [ids -> [FieldKeys(c) -> values]] :
            \A id \in ids : \A k \in FieldKeys(c) :
                t[id][k] \in AggValues(c, log, id, k, startTime, endTime)}

\* SPLIT(x, ",") for an ARRAY field (NULL stays NULL, stored as the empty
\* array), the value itself otherwise.
Restored(c, k, x) ==
    IF FieldOf(c, k).type = "ARRAY"
    THEN (IF x = Null THEN Arr(<<>>)
          ELSE LET parts == Split(x.v, ",") IN Arr([i \in 1..Len(parts) |-> Str(parts[i])]))
    ELSE x

HasRow(table, id) == \E r \in BagToSet(table) : r.documentId = id

\* The number of rows of the table with this documentId.
RowCount(table, id) ==
    LET rows == {r \in BagToSet(table) : r.documentId = id}
    IN  BagCardinality([r \in rows |-> table[r]])

\* InsertStatement with createdCount >= deletedCount for its condition.
InsertStatement_OnTie(c, table, tmp, log, startTime, endTime) ==
    LET ids == {id \in DOMAIN tmp :
                    /\ CountIf(log, id, "CREATED", startTime, endTime)
                         >= CountIf(log, id, "DELETED", startTime, endTime)
                    /\ ~HasRow(table, id)}
    IN  table (+) SetToBag({ [ documentId |-> id,
                               data |-> [k \in FieldKeys(c) |-> Restored(c, k, tmp[id][k])] ]
                             : id \in ids })

\* INSERT INTO main SELECT ... FROM tmp WHERE createdCount > deletedCount AND NOT EXISTS (...)
InsertStatement(c, table, tmp, log, startTime, endTime) ==
    LET ids == {id \in DOMAIN tmp :
                    /\ CountIf(log, id, "CREATED", startTime, endTime)
                         > CountIf(log, id, "DELETED", startTime, endTime)
                    /\ ~HasRow(table, id)}
    IN  table (+) SetToBag({ [ documentId |-> id,
                               data |-> [k \in FieldKeys(c) |-> Restored(c, k, tmp[id][k])] ]
                             : id \in ids })

\* DeleteStatement with createdCount > deletedCount for its condition.
DeleteStatement_Swapped(table, tmp, log, startTime, endTime) ==
    LET doomed(row) ==
            /\ row.documentId \in DOMAIN tmp
            /\ CountIf(log, row.documentId, "CREATED", startTime, endTime)
                 > CountIf(log, row.documentId, "DELETED", startTime, endTime)
    IN  [r \in {q \in BagToSet(table) : ~doomed(q)} |-> table[r]]

\* DELETE main i WHERE EXISTS (SELECT * FROM tmp n WHERE i.documentId = n.documentId
\*                             AND n.deletedCount > n.createdCount)
DeleteStatement(table, tmp, log, startTime, endTime) ==
    LET doomed(row) ==
            /\ row.documentId \in DOMAIN tmp
            /\ CountIf(log, row.documentId, "DELETED", startTime, endTime)
                 > CountIf(log, row.documentId, "CREATED", startTime, endTime)
    IN  [r \in {q \in BagToSet(table) : ~doomed(q)} |-> table[r]]

\* UPDATE main i SET k = IF(n.k is not NULL, <restored n.k>, i.k) FROM tmp n
\* WHERE i.documentId = n.documentId
UpdateStatement(c, table, tmp) ==
    LET updated(row) ==
            IF row.documentId \in DOMAIN tmp
            THEN [ documentId |-> row.documentId,
                   data |-> [k \in FieldKeys(c) |->
                                IF tmp[row.documentId][k] # Null
                                THEN Restored(c, k, tmp[row.documentId][k])
                                ELSE row.data[k]] ]
            ELSE row
    IN  BagOfAll(updated, table)

\* The transaction: INSERT, then DELETE, then UPDATE, on the temp table tmp.
Reconcile(c, table, tmp, log, startTime, endTime) ==
    UpdateStatement(c,
        DeleteStatement(
            InsertStatement(c, table, tmp, log, startTime, endTime),
            tmp, log, startTime, endTime),
        tmp)

----------------------------------------------------------------------------
(* fsUpdatePrimaryTable and syncTrackerToMainTable: the scheduled handler *)

Idle == [ pc |-> "idle", idx |-> 0, startTime |-> 0, endTime |-> 0,
          tmp |-> <<>>, before |-> EmptyBag, after |-> EmptyBag, seen |-> 0 ]

\* The for loop's next iteration, or the handler's end.
NextConfig(idx) ==
    IF idx < Len(collectionConfigs)
    THEN [Idle EXCEPT !.pc = "start", !.idx = idx + 1]
    ELSE Idle

RunEnded(c, outcome) ==
    [lastRun EXCEPT ![c] = [ outcome |-> outcome,
                             checkpointBefore |-> checkpoint[c],
                             startTime |-> sync.startTime,
                             endTime |-> sync.endTime,
                             logLen |-> Len(tracker[c]),
                             seen |-> sync.seen ]]

\* The schedule fires: a later instant than any before it.
Schedule ==
    /\ sync.pc = "idle"
    /\ now' = now + 1
    /\ sync' = NextConfig(0)
    /\ UNCHANGED <<fixed, direct, pages, overlap, tracker, main, checkpoint, backfill, lastWrite, lastRun>>

\* settingsRef.get(), then the window [startTime, endTime].
SyncRead(ok) ==
    /\ sync.pc = "start"
    /\ IF ok
       THEN /\ sync' = [sync EXCEPT !.pc = "window",
                                    !.startTime = StartTimeOf(checkpoint[sync.idx], now),
                                    !.endTime = now]
            /\ UNCHANGED lastRun
       ELSE /\ sync' = NextConfig(sync.idx)
            /\ lastRun' = RunEnded(sync.idx, "failed")
    /\ UNCHANGED <<fixed, direct, pages, overlap, now, tracker, main, checkpoint, backfill, lastWrite>>

\* SyncQuery with no catch around the call: a failure ends the handler.
SyncQuery_Uncaught(ok) ==
    /\ sync.pc = "window"
    /\ LET c == sync.idx IN
       IF ok
       THEN /\ \E tmp \in TmpTables(c, tracker[c], sync.startTime, sync.endTime) :
                /\ main' = [main EXCEPT ![c] =
                                Reconcile(c, @, tmp, tracker[c], sync.startTime, sync.endTime)]
                /\ sync' = [sync EXCEPT !.pc = "queried",
                                        !.tmp = tmp,
                                        !.before = main[c],
                                        !.after = main'[c],
                                        !.seen = Len(tracker[c])]
            /\ UNCHANGED lastRun
       ELSE /\ sync' = Idle
            /\ lastRun' = RunEnded(c, "failed")
            /\ UNCHANGED main
    /\ UNCHANGED <<fixed, direct, pages, overlap, now, tracker, checkpoint, backfill, lastWrite>>

\* SyncQuery with the script's statements outside a transaction: a job that
\* fails after its INSERT leaves the inserted rows.
SyncQuery_NoTransaction(ok) ==
    /\ sync.pc = "window"
    /\ LET c == sync.idx IN
       IF ok
       THEN /\ \E tmp \in TmpTables(c, tracker[c], sync.startTime, sync.endTime) :
                /\ main' = [main EXCEPT ![c] =
                                Reconcile(c, @, tmp, tracker[c], sync.startTime, sync.endTime)]
                /\ sync' = [sync EXCEPT !.pc = "queried",
                                        !.tmp = tmp,
                                        !.before = main[c],
                                        !.after = main'[c],
                                        !.seen = Len(tracker[c])]
            /\ UNCHANGED lastRun
       ELSE /\ sync' = NextConfig(c)
            /\ lastRun' = RunEnded(c, "failed")
            /\ \E tmp \in TmpTables(c, tracker[c], sync.startTime, sync.endTime) :
                  main' = [main EXCEPT ![c] =
                              InsertStatement(c, @, tmp, tracker[c], sync.startTime, sync.endTime)]
    /\ UNCHANGED <<fixed, direct, pages, overlap, now, tracker, checkpoint, backfill, lastWrite>>

\* bq.createQueryJob and the job: the script runs as one transaction on the
\* tables as they are when it runs, or fails and changes nothing.
SyncQuery(ok) ==
    /\ sync.pc = "window"
    /\ LET c == sync.idx IN
       IF ok
       THEN /\ \E tmp \in TmpTables(c, tracker[c], sync.startTime, sync.endTime) :
                /\ main' = [main EXCEPT ![c] =
                                Reconcile(c, @, tmp, tracker[c], sync.startTime, sync.endTime)]
                /\ sync' = [sync EXCEPT !.pc = "queried",
                                        !.tmp = tmp,
                                        !.before = main[c],
                                        !.after = main'[c],
                                        !.seen = Len(tracker[c])]
            /\ UNCHANGED lastRun
       ELSE /\ sync' = NextConfig(c)
            /\ lastRun' = RunEnded(c, "failed")
            /\ UNCHANGED main
    /\ UNCHANGED <<fixed, direct, pages, overlap, now, tracker, checkpoint, backfill, lastWrite>>

\* SyncCheckpoint with the checkpoint written in a finally block.
SyncCheckpoint_Finally(ok) ==
    /\ sync.pc = "queried"
    /\ checkpoint' = [checkpoint EXCEPT ![sync.idx] = now]
    /\ lastRun' = RunEnded(sync.idx, IF ok THEN "ok" ELSE "failed")
    /\ sync' = NextConfig(sync.idx)
    /\ UNCHANGED <<fixed, direct, pages, overlap, now, tracker, main, backfill, lastWrite>>

\* job.getQueryResults(), then settingsRef.set({ lastRunDate: DateTime.now() }).
SyncCheckpoint(ok) ==
    /\ sync.pc = "queried"
    /\ LET c == sync.idx IN
       IF ok
       THEN /\ checkpoint' = [checkpoint EXCEPT ![c] = now]
            /\ lastRun' = RunEnded(c, "ok")
       ELSE /\ lastRun' = RunEnded(c, "failed")
            /\ UNCHANGED checkpoint
    /\ sync' = NextConfig(sync.idx)
    /\ UNCHANGED <<fixed, direct, pages, overlap, now, tracker, main, backfill, lastWrite>>

Tick ==
    /\ now' = now + 1
    /\ UNCHANGED <<fixed, direct, pages, overlap, tracker, main, checkpoint, sync, backfill, lastWrite, lastRun>>

----------------------------------------------------------------------------
(* fsUpdatePrimaryTable invoked again while an invocation is under way: the *)
(* same handler, its position kept in overlap                               *)

\* The schedule fires for a second invocation.
OverlapSchedule ==
    /\ overlap.pc = "idle"
    /\ now' = now + 1
    /\ overlap' = NextConfig(0)
    /\ UNCHANGED <<fixed, direct, pages, sync, tracker, main, checkpoint, backfill, lastWrite, lastRun>>

OverlapRead(ok) ==
    /\ overlap.pc = "start"
    /\ overlap' = IF ok
                  THEN [overlap EXCEPT !.pc = "window",
                                       !.startTime = StartTimeOf(checkpoint[overlap.idx], now),
                                       !.endTime = now]
                  ELSE NextConfig(overlap.idx)
    /\ UNCHANGED <<fixed, direct, pages, sync, now, tracker, main, checkpoint, backfill, lastWrite, lastRun>>

OverlapQuery(ok) ==
    /\ overlap.pc = "window"
    /\ LET c == overlap.idx IN
       IF ok
       THEN \E tmp \in TmpTables(c, tracker[c], overlap.startTime, overlap.endTime) :
                /\ main' = [main EXCEPT ![c] =
                                Reconcile(c, @, tmp, tracker[c], overlap.startTime, overlap.endTime)]
                /\ overlap' = [overlap EXCEPT !.pc = "queried",
                                              !.tmp = tmp,
                                              !.before = main[c],
                                              !.after = main'[c],
                                              !.seen = Len(tracker[c])]
       ELSE /\ overlap' = NextConfig(c)
            /\ UNCHANGED main
    /\ UNCHANGED <<fixed, direct, pages, sync, now, tracker, checkpoint, backfill, lastWrite, lastRun>>

OverlapCheckpoint(ok) ==
    /\ overlap.pc = "queried"
    /\ checkpoint' = IF ok THEN [checkpoint EXCEPT ![overlap.idx] = now] ELSE checkpoint
    /\ overlap' = NextConfig(overlap.idx)
    /\ UNCHANGED <<fixed, direct, pages, sync, now, tracker, main, backfill, lastWrite, lastRun>>

----------------------------------------------------------------------------
(* initBigQuerySyncFirebase: backfillCollection and backfillCollectionGroup *)

batchSize == 2

\* The bodies the transform webhook can answer with.
TransformResponses == { [title |-> Str("t1")], [title |-> Num(7)] }

Min(a, b) == IF a < b THEN a ELSE b

\* col.startAt(ref).limit(batchSize + 1).get(): positions in the collection.
PageDocs(c, ref) ==
    LET first == IF ref = 0 THEN 1 ELSE ref
    IN  first..Min(first + batchSize, Len(store[c]))

\* docs.slice(0, batchSize)
PageSlice(c, ref) ==
    LET first == IF ref = 0 THEN 1 ELSE ref
    IN  {i \in PageDocs(c, ref) : i < first + batchSize}

\* NextRef with the last document of the slice for the cursor.
NextRef_LastOfSlice(c, ref) ==
    LET first == IF ref = 0 THEN 1 ELSE ref
    IN  IF first + batchSize \in PageDocs(c, ref) THEN first + batchSize - 1 ELSE 0

\* docs[batchSize]: the extra document, 0 when the page is the last one.
NextRef(c, ref) ==
    LET first == IF ref = 0 THEN 1 ELSE ref
    IN  IF first + batchSize \in PageDocs(c, ref) THEN first + batchSize ELSE 0

\* The row pushed for one document of the page.
BackfillRow(c, i, response) ==
    LET config == collectionConfigs[c]
        doc == store[c][i]
        data == IF config.collectionGroup # ""
                THEN [k \in DOMAIN doc.data \cup {"parentId"} |->
                        IF k = "parentId"
                        THEN (IF doc.parent = "" THEN Null ELSE Str(doc.parent))
                        ELSE doc.data[k]]
                ELSE doc.data
    IN  formatDocument(data, doc.id, config, response)

\* The for loop of initBigQuerySyncFirebase moves on to the next config.
NextBackfill(idx) ==
    IF idx < Len(collectionConfigs)
    THEN [pc |-> "paging", idx |-> idx + 1, ref |-> 0]
    ELSE [pc |-> "done", idx |-> 0, ref |-> 0]

InitDispatch ==
    /\ backfill.pc = "pending"
    /\ backfill' = NextBackfill(0)
    /\ UNCHANGED <<fixed, direct, pages, overlap, now, tracker, main, checkpoint, sync, lastWrite, lastRun>>

\* PageRows with Promise.all for Promise.allSettled: one rejection and the
\* page has no rows.
PageRows_All(c, ref, formatted, response) ==
    IF formatted = PageSlice(c, ref)
    THEN {BackfillRow(c, i, response) : i \in formatted}
    ELSE {}

\* rows after Promise.allSettled: one row for each document of the slice
\* whose formatDocument resolved.
PageRows(c, ref, formatted, response) ==
    {BackfillRow(c, i, response) : i \in formatted \cap PageSlice(c, ref)}

\* One iteration of the do-while loop: formatted are the documents of the
\* slice whose formatDocument resolved, insertOk the bulk insert succeeding.
BackfillPage(formatted, response, insertOk) ==
    /\ backfill.pc = "paging"
    /\ LET c == backfill.idx
           rows == PageRows(c, backfill.ref, formatted, response)
           ref == NextRef(c, backfill.ref)
           page == [ first |-> IF backfill.ref = 0 THEN 1 ELSE backfill.ref,
                     fetched |-> Cardinality(PageDocs(c, backfill.ref)),
                     formatted |-> formatted,
                     inserted |-> formatted # {} /\ insertOk,
                     clean |-> /\ formatted = PageSlice(c, backfill.ref)
                               /\ (formatted = {} \/ insertOk) ]
       IN  /\ formatted \subseteq PageSlice(c, backfill.ref)
           /\ collectionConfigs[c].transformUrl = "" => formatted = PageSlice(c, backfill.ref)
           /\ IF ~collectionConfigs[c].backfill
              THEN /\ backfill' = NextBackfill(c)
                   /\ UNCHANGED <<main, pages>>
              ELSE /\ pages' = [pages EXCEPT ![c] = Append(@, page)]
                   /\ IF rows = {}
                      THEN /\ backfill' = NextBackfill(c)
                           /\ UNCHANGED main
                      ELSE /\ backfill' = IF ref # 0 THEN [backfill EXCEPT !.ref = ref]
                                          ELSE NextBackfill(c)
                           /\ IF insertOk
                              THEN main' = [main EXCEPT ![c] = @ (+) SetToBag(rows)]
                              ELSE UNCHANGED main
    /\ UNCHANGED <<fixed, direct, overlap, now, tracker, checkpoint, sync, lastWrite, lastRun>>

----------------------------------------------------------------------------
(* Inputs and specifications *)

\* A document with both fields, and one with neither.
UserDocs ==
    { [name |-> Str("v1"), tags |-> Arr(<<Str("a")>>)],
      [nick |-> Str("n")] }

\* The change events of the pipeline specification.
PipelineEvents ==
    {[fullPath |-> "users/u1", existsBefore |-> b, existsAfter |-> TRUE, data |-> d] :
        b \in BOOLEAN, d \in UserDocs}
    \cup {[fullPath |-> "users/u1", existsBefore |-> TRUE, existsAfter |-> FALSE, data |-> <<>>]}

UsersCollection ==
    << [ id |-> "u1", parent |-> "",
         data |-> [name |-> Str("v1"), tags |-> Arr(<<Str("a")>>)] ] >>

PostsCollection ==
    << [ id |-> "p1", parent |-> "u1", data |-> [title |-> Str("t1")] ] >>

\* No direct call of formatDocument yet.
NoCall == [ made |-> FALSE ]

\* The state after the process has loaded configs and the tables exist.
Start(configs, collections) ==
    /\ collectionConfigs = configs
    /\ store = collections
    /\ now = 1
    /\ tracker = [c \in 1..Len(configs) |-> <<>>]
    /\ main = [c \in 1..Len(configs) |-> EmptyBag]
    /\ checkpoint = [c \in 1..Len(configs) |-> NoCheckpoint]
    /\ sync = Idle
    /\ overlap = Idle
    /\ backfill = [pc |-> "pending", idx |-> 0, ref |-> 0]
    /\ pages = [c \in 1..Len(configs) |-> <<>>]
    /\ call = NoCall
    /\ lastWrite = [ fullPath |-> "", existsBefore |-> FALSE, existsAfter |-> FALSE,
                     ok |-> FALSE, lens |-> [c \in 1..Len(configs) |-> 0] ]
    /\ lastRun = [c \in 1..Len(configs) |->
                    [ outcome |-> "none", checkpointBefore |-> NoCheckpoint,
                      startTime |-> 0, endTime |-> 0, logLen |-> 0, seen |-> 0 ]]

Init == Start(<<ConfigUsers>>, <<UsersCollection>>)

Next ==
    \/ /\ TotalLog < MaxLog
       /\ \E ev \in PipelineEvents : handleDocumentWrite(ev, <<>>, TRUE, TRUE)
    \/ now < MaxTime /\ Schedule
    \/ \E ok \in BOOLEAN : SyncRead(ok)
    \/ \E ok \in BOOLEAN : SyncQuery(ok)
    \/ \E ok \in BOOLEAN : SyncCheckpoint(ok)
    \/ InitDispatch
    \/ \E formatted \in SUBSET (1..Len(store[1])) : \E insertOk \in BOOLEAN :
          BackfillPage(formatted, <<>>, insertOk)
    \/ now < MaxTime /\ Tick

Spec == Init /\ [][Next]_vars

----------------------------------------------------------------------------
(* The scheduled handler over a longer time, on two configurations and one *)
(* change event                                                            *)

InitRuns == Start(<<ConfigUsers, ConfigPosts>>, <<UsersCollection, PostsCollection>>)

NextRuns ==
    \/ /\ TotalLog < MaxRunLog
       /\ \E ev \in PipelineEvents : handleDocumentWrite(ev, <<>>, TRUE, TRUE)
    \/ now < MaxRunTime /\ Schedule
    \/ \E ok \in BOOLEAN : SyncRead(ok)
    \/ \E ok \in BOOLEAN : SyncQuery(ok)
    \/ \E ok \in BOOLEAN : SyncCheckpoint(ok)
    \/ now < MaxRunTime /\ Tick

SpecRuns == InitRuns /\ [][NextRuns]_vars

----------------------------------------------------------------------------
(* Replay: one document's mutations recorded and consolidated by the first *)
(* of two equal configurations; the second one's log stays empty, so its    *)
(* main table stays the initial table                                       *)

\* The initial main tables: empty, or the backfilled collection.
ReplayTables ==
    { EmptyBag,
      SetToBag({formatDocument(UsersCollection[1].data, UsersCollection[1].id,
                               ConfigUsers, <<>>)}) }

InitReplay ==
    /\ collectionConfigs = <<ConfigUsers, ConfigUsers>>
    /\ store = <<UsersCollection, UsersCollection>>
    /\ now = 1
    /\ tracker = [c \in 1..2 |-> <<>>]
    /\ \E table \in ReplayTables : main = [c \in 1..2 |-> table]
    /\ checkpoint = [c \in 1..2 |-> NoCheckpoint]
    /\ sync = Idle
    /\ overlap = Idle
    /\ backfill = [pc |-> "done", idx |-> 0, ref |-> 0]
    /\ pages = [c \in 1..2 |-> <<>>]
    /\ call = NoCall
    /\ lastWrite = [ fullPath |-> "", existsBefore |-> FALSE, existsAfter |-> FALSE,
                     ok |-> FALSE, lens |-> [c \in 1..2 |-> 0] ]
    /\ lastRun = [c \in 1..2 |->
                    [ outcome |-> "none", checkpointBefore |-> NoCheckpoint,
                      startTime |-> 0, endTime |-> 0, logLen |-> 0, seen |-> 0 ]]

\* Whether the document exists: after the last write, or as backfilled.
DocExists ==
    IF lastWrite.fullPath = "" THEN HasRow(main[2], "u1") ELSE lastWrite.existsAfter

LastTimestamp ==
    IF tracker[1] = <<>> THEN 0 ELSE tracker[1][Len(tracker[1])].timestamp

\* The event is the last one delivered, delivered again.
IsRedelivery(ev) ==
    /\ tracker[1] # <<>>
    /\ ev.fullPath = lastWrite.fullPath
    /\ ev.existsBefore = lastWrite.existsBefore
    /\ ev.existsAfter = lastWrite.existsAfter
    /\ TrackerRow(ConfigUsers, ev, <<>>).data = tracker[1][Len(tracker[1])].data

\* The next mutation of the document is delivered, between two runs and at
\* an instant of its own, later than the checkpoint.
Mutate ==
    /\ sync.pc = "idle"
    /\ now > LastTimestamp
    /\ now > checkpoint[1]
    /\ \E ev \in PipelineEvents :
          /\ ev.existsBefore = DocExists
          /\ ~IsRedelivery(ev)
          /\ handleDocumentWrite(ev, <<>>, TRUE, TRUE)

\* The last event is delivered once more, at a later instant.
Redeliver ==
    /\ sync.pc = "idle"
    /\ now > LastTimestamp
    /\ \E ev \in PipelineEvents :
          /\ IsRedelivery(ev)
          /\ handleDocumentWrite(ev, <<>>, TRUE, TRUE)

NextReplay ==
    \/ TotalLog < MaxReplayLog /\ Mutate
    \/ now < MaxReplayTime /\ Schedule
    \/ SyncRead(TRUE)
    \/ SyncQuery(TRUE)
    \/ SyncCheckpoint(TRUE)
    \/ sync.pc = "idle" /\ now < MaxReplayTime /\ Tick

SpecReplay == InitReplay /\ [][NextReplay]_vars

\* Deliveries, some repeated, and then one run.
NextDup ==
    \/ TotalLog < MaxReplayLog /\ checkpoint[1] = NoCheckpoint /\ Mutate
    \/ TotalLog < MaxReplayLog /\ checkpoint[1] = NoCheckpoint /\ Redeliver
    \/ now < MaxReplayTime /\ checkpoint[1] = NoCheckpoint /\ Schedule
    \/ SyncRead(TRUE)
    \/ SyncQuery(TRUE)
    \/ SyncCheckpoint(TRUE)
    \/ sync.pc = "idle" /\ now < MaxReplayTime /\ Tick

SpecDup == InitReplay /\ [][NextDup]_vars

----------------------------------------------------------------------------
(* Successive runs on one configuration: change events of any kind at any *)
(* instant, the main table empty or backfilled at the start                *)

InitRerun ==
    /\ collectionConfigs = <<ConfigUsers>>
    /\ store = <<UsersCollection>>
    /\ now = 1
    /\ tracker = <<(<<>>)>>
    /\ \E table \in ReplayTables : main = <<table>>
    /\ checkpoint = <<NoCheckpoint>>
    /\ sync = Idle
    /\ overlap = Idle
    /\ backfill = [pc |-> "done", idx |-> 0, ref |-> 0]
    /\ pages = <<(<<>>)>>
    /\ call = NoCall
    /\ lastWrite = [ fullPath |-> "", existsBefore |-> FALSE, existsAfter |-> FALSE,
                     ok |-> FALSE, lens |-> <<0>> ]
    /\ lastRun = << [ outcome |-> "none", checkpointBefore |-> NoCheckpoint,
                      startTime |-> 0, endTime |-> 0, logLen |-> 0, seen |-> 0 ] >>

NextRerun ==
    \/ /\ TotalLog < MaxRerunLog
       /\ \E ev \in PipelineEvents : handleDocumentWrite(ev, <<>>, TRUE, TRUE)
    \/ now < MaxRerunTime /\ Schedule
    \/ \E ok \in BOOLEAN : SyncRead(ok)
    \/ \E ok \in BOOLEAN : SyncQuery(ok)
    \/ \E ok \in BOOLEAN : SyncCheckpoint(ok)
    \/ now < MaxRerunTime /\ Tick

SpecRerun == InitRerun /\ [][NextRerun]_vars

----------------------------------------------------------------------------
(* Two invocations of the scheduled handler on one configuration *)

NextOverlap ==
    \/ /\ TotalLog < MaxOverlapLog
       /\ \E ev \in PipelineEvents : handleDocumentWrite(ev, <<>>, TRUE, TRUE)
    \/ now < MaxOverlapTime /\ Schedule
    \/ \E ok \in BOOLEAN : SyncRead(ok)
    \/ \E ok \in BOOLEAN : SyncQuery(ok)
    \/ \E ok \in BOOLEAN : SyncCheckpoint(ok)
    \/ now < MaxOverlapTime /\ OverlapSchedule
    \/ \E ok \in BOOLEAN : OverlapRead(ok)
    \/ \E ok \in BOOLEAN : OverlapQuery(ok)
    \/ \E ok \in BOOLEAN : OverlapCheckpoint(ok)

SpecOverlap == InitRerun /\ [][NextOverlap]_vars

----------------------------------------------------------------------------
(* The change event recorder alone, on two configurations *)

RecorderDocs(fullPath) ==
    IF fullPath = "users/u1"
    THEN { [name |-> Str("v1"), tags |-> Arr(<<Str("a")>>)],
           [name |-> Num(7), tags |-> Str("a")] }
    ELSE IF fullPath = "users/u1/posts/p1"
    THEN { [title |-> Str("t1"), parentId |-> Str("own")] }
    ELSE { <<>> }

RecorderPaths == {"users/u1", "users/u1/posts/p1", "orders/o1"}

RecorderEvents ==
    UNION { UNION { {[fullPath |-> path, existsBefore |-> b, existsAfter |-> TRUE, data |-> d] :
                        d \in RecorderDocs(path)}
                    \cup {[fullPath |-> path, existsBefore |-> b, existsAfter |-> FALSE, data |-> <<>>]}
                  : b \in BOOLEAN }
          : path \in RecorderPaths }

\* The webhook is called for the created and updated documents of posts.
CallsWebhook(ev) == ev.fullPath = "users/u1/posts/p1" /\ ev.existsAfter

InitRecorder == Start(<<ConfigUsers, ConfigPosts>>, <<UsersCollection, PostsCollection>>)

NextRecorder ==
    \/ /\ TotalLog < MaxRecorded
       /\ \E ev \in RecorderEvents : \E insertOk \in BOOLEAN :
             IF CallsWebhook(ev)
             THEN \/ \E response \in TransformResponses :
                        handleDocumentWrite(ev, response, TRUE, insertOk)
                  \/ handleDocumentWrite(ev, <<>>, FALSE, insertOk)
             ELSE handleDocumentWrite(ev, <<>>, TRUE, insertOk)
    \/ now < MaxTime /\ Tick

SpecRecorder == InitRecorder /\ [][NextRecorder]_vars

----------------------------------------------------------------------------
(* Claims about handleDocumentWrite (checked under SpecRecorder) *)

LastConfig == findMatchingConfig(lastWrite.fullPath)

Handled == lastWrite.fullPath # ""

\* C1: an event whose path resolves to a configuration, whose existence pair
\* is not (absent, absent) and whose coercion and insert succeed appends
\* exactly one record, to the resolved configuration's tracker log and to
\* no other.
C1_AppendsExactlyOne ==
    (/\ Handled
     /\ LastConfig # NoConfig
     /\ (lastWrite.existsBefore \/ lastWrite.existsAfter)
     /\ lastWrite.ok)
    => \A c \in ConfigIds :
          Len(tracker[c]) = lastWrite.lens[c] + (IF c = LastConfig THEN 1 ELSE 0)

C1_Witness ==
    /\ Handled
    /\ LastConfig = 2
    /\ lastWrite.ok
    /\ lastWrite.existsBefore /\ ~lastWrite.existsAfter
    /\ lastWrite.lens = <<1, 0>>
    /\ Len(tracker[1]) = 1
    /\ Len(tracker[2]) = 1
    /\ tracker[2][1].documentId = "u1-p1"

\* C2: the change kind follows from (before.exists, after.exists) alone:
\* (F,T) CREATED, (T,T) UPDATED, (T,F) DELETED; (F,F) appends nothing.
C2_ChangeKind ==
    Handled =>
        /\ (~lastWrite.existsBefore /\ ~lastWrite.existsAfter)
              => \A c \in ConfigIds : Len(tracker[c]) = lastWrite.lens[c]
        /\ \A c \in ConfigIds :
              Len(tracker[c]) = lastWrite.lens[c] + 1
              => tracker[c][Len(tracker[c])].changeType =
                    (CASE ~lastWrite.existsBefore /\ lastWrite.existsAfter -> "CREATED"
                       [] lastWrite.existsBefore /\ lastWrite.existsAfter -> "UPDATED"
                       [] lastWrite.existsBefore /\ ~lastWrite.existsAfter -> "DELETED"
                       [] OTHER -> "none")

C2_Witness ==
    /\ Handled
    /\ LastConfig = 1
    /\ lastWrite.ok
    /\ ~lastWrite.existsBefore /\ ~lastWrite.existsAfter
    /\ Len(tracker[1]) = 1
    /\ tracker[1][1].changeType = "UPDATED"

----------------------------------------------------------------------------
(* Claims about one consolidation run (checked under Spec).                *)
(* While sync.pc = "queried" the query job of config sync.idx has          *)
(* succeeded: sync.before and sync.after are the main table before and     *)
(* after it, sync.tmp its temp table, and the first sync.seen rows of the  *)
(* tracker are the log it read.                                            *)

Queried == sync.pc = "queried"

SeenLog == SubSeq(tracker[sync.idx], 1, sync.seen)

SeenIds == {SeenLog[i].documentId : i \in 1..Len(SeenLog)}

createdCount(id) == CountIf(SeenLog, id, "CREATED", sync.startTime, sync.endTime)

deletedCount(id) == CountIf(SeenLog, id, "DELETED", sync.startTime, sync.endTime)

\* The values a field may hold as "the latest non-null value among the
\* aggregated entries": the stored value of an aggregated entry that has
\* one, with no later aggregated entry that has one.
LatestNonNull(id, k) ==
    LET entries == Aggregated(SeenLog, id, sync.startTime, sync.endTime)
        having == {i \in entries : Column(sync.idx, SeenLog[i], k) # Null}
    IN  {Column(sync.idx, SeenLog[i], k) :
            i \in {j \in having : \A h \in having : SeenLog[h].timestamp <= SeenLog[j].timestamp}}

RowsWithId(table, id) == {r \in BagToSet(table) : r.documentId = id}

\* C3: after a successful run, an id with createdCount > deletedCount and no
\* row before the run has exactly one row, and each field of it holds the
\* latest non-null value of that field among the aggregated entries.
C3_InsertedRowHoldsLatest ==
    Queried =>
        \A id \in SeenIds :
            (createdCount(id) > deletedCount(id) /\ ~HasRow(sync.before, id))
            => /\ RowCount(sync.after, id) = 1
               /\ \A r \in RowsWithId(sync.after, id) : \A k \in FieldKeys(sync.idx) :
                     LatestNonNull(id, k) # {} => r.data[k] \in LatestNonNull(id, k)

\* C4 as claimed: after a successful run, an id that had a row before the
\* run and has deletedCount > createdCount within the window has no row.
C4_DeletedRowIsGone ==
    Queried =>
        \A id \in SeenIds :
            (HasRow(sync.before, id) /\ deletedCount(id) > createdCount(id))
            => ~HasRow(sync.after, id)

\* C4 as amended: the same for the ids the run aggregated, those with an
\* entry in the window that is not older than the id's latest CREATED entry.
C4_AggregatedDeletedRowIsGone ==
    Queried =>
        \A id \in DOMAIN sync.tmp :
            (HasRow(sync.before, id) /\ deletedCount(id) > createdCount(id))
            => ~HasRow(sync.after, id)

C4_Witness ==
    /\ Queried
    /\ "u1" \in DOMAIN sync.tmp
    /\ HasRow(sync.before, "u1")
    /\ deletedCount("u1") = 1
    /\ createdCount("u1") = 0
    /\ ~HasRow(sync.after, "u1")

\* C5: an id with no row before the run and createdCount = deletedCount in
\* the window gets neither an insert nor a delete: it has no row after.
C5_TieLeavesNoRow ==
    Queried =>
        \A id \in SeenIds :
            (~HasRow(sync.before, id) /\ createdCount(id) = deletedCount(id))
            => ~HasRow(sync.after, id)

\* CREATED, UPDATED, DELETED of one id within one window.
C5_Witness ==
    /\ Queried
    /\ sync.seen = 3
    /\ <<SeenLog[1].changeType, SeenLog[2].changeType, SeenLog[3].changeType>>
          = <<"CREATED", "UPDATED", "DELETED">>
    /\ createdCount("u1") = 1
    /\ deletedCount("u1") = 1
    /\ "u1" \in DOMAIN sync.tmp
    /\ ~HasRow(sync.before, "u1")
    /\ ~HasRow(sync.after, "u1")

\* C6: the main table holds at most one row per document id.
C6_OneRowPerId ==
    \A c \in ConfigIds :
        \A r \in BagToSet(main[c]) : RowCount(main[c], r.documentId) <= 1

\* The configuration whose last run failed has its next run at its window.
RetryOf(c) ==
    /\ lastRun[c].outcome = "failed"
    /\ sync.idx = c
    /\ sync.pc \in {"window", "queried"}

\* C7: a run that fails leaves the checkpoint as it was, and the next run
\* of the configuration starts at the same startTime with a later endTime.
C7_FailedRunSameStartTime ==
    \A c \in ConfigIds :
        lastRun[c].outcome = "failed" =>
            /\ checkpoint[c] = lastRun[c].checkpointBefore
            /\ RetryOf(c) /\ lastRun[c].endTime # 0 =>
                  /\ sync.startTime = lastRun[c].startTime
                  /\ sync.endTime > lastRun[c].endTime

\* C7, with the first run's case apart: a run that fails leaves the
\* checkpoint as it was, and the next run of the configuration has a later
\* endTime and starts at the same startTime when a checkpoint is persisted,
\* and one hundred years before its own endTime when none is.
C7_FailedRunKeepsCheckpoint ==
    \A c \in ConfigIds :
        lastRun[c].outcome = "failed" =>
            /\ checkpoint[c] = lastRun[c].checkpointBefore
            /\ RetryOf(c) =>
                  /\ sync.startTime = StartTimeOf(lastRun[c].checkpointBefore, sync.endTime)
                  /\ lastRun[c].checkpointBefore # NoCheckpoint /\ lastRun[c].endTime # 0
                        => sync.startTime = lastRun[c].startTime
                  /\ lastRun[c].checkpointBefore = NoCheckpoint
                        => sync.startTime = sync.endTime - HundredYears
                  /\ sync.endTime > lastRun[c].endTime

\* A run with a persisted checkpoint failed after its query, and the next
\* run has its window.
C7_Witness ==
    /\ RetryOf(1)
    /\ lastRun[1].endTime # 0
    /\ lastRun[1].checkpointBefore # NoCheckpoint
    /\ sync.startTime = lastRun[1].startTime
    /\ sync.endTime > lastRun[1].endTime

\* C8: after a successful run the checkpoint equals the endTime of the
\* window the run consolidated.
C8_CheckpointIsEndTime ==
    \A c \in ConfigIds :
        lastRun[c].outcome = "ok" => checkpoint[c] = lastRun[c].endTime

----------------------------------------------------------------------------
(* Claims about replay and repeated delivery (SpecReplay, SpecDup) *)

\* Every entry of the log is consolidated, and no run is under way.
Consolidated ==
    /\ sync.pc = "idle"
    /\ tracker[1] # <<>>
    /\ checkpoint[1] >= LastTimestamp

\* The main tables one window over the whole log, from no checkpoint, can
\* give.
OneWindow(table, log, endTime) ==
    LET startTime == StartTimeOf(NoCheckpoint, endTime)
    IN  { Reconcile(1, table, tmp, log, startTime, endTime) :
            tmp \in TmpTables(1, log, startTime, endTime) }

\* C9: the log consolidated in successive windows gives the main table
\* that the same log consolidated in one window from the initial
\* checkpoint gives.
C9_ReplayEqualsOneWindow ==
    Consolidated => main[1] \in OneWindow(main[2], tracker[1], checkpoint[1])

SameEvent(a, b) ==
    /\ a.changeType = b.changeType
    /\ a.documentId = b.documentId
    /\ a.data = b.data

RECURSIVE DedupUpTo(_, _)
DedupUpTo(log, n) ==
    IF n = 0 THEN <<>>
    ELSE IF n > 1 /\ SameEvent(log[n - 1], log[n]) THEN DedupUpTo(log, n - 1)
    ELSE Append(DedupUpTo(log, n - 1), log[n])

\* The log with each event delivered once: the first record of each run of
\* repeated deliveries.
DeliveredOnce(log) == DedupUpTo(log, Len(log))

\* C10: the main table after the run is the one the run gives on the log
\* with each event delivered once.
C10_RepeatedDeliveryTolerated ==
    Consolidated =>
        main[1] \in OneWindow(main[2], DeliveredOnce(tracker[1]), checkpoint[1])

----------------------------------------------------------------------------
(* Claims about successive runs (checked under SpecRerun) *)

\* The query job of a run of config 1 has succeeded, and the run before it
\* was successful.
Rerun ==
    /\ Queried
    /\ sync.idx = 1
    /\ lastRun[1].outcome = "ok"

Carries(row, k) == k \in DOMAIN row.data /\ row.data[k] # Null

\* The entries of the id that the claim draws the field's value from.
Eligible(id, k) ==
    {i \in Aggregated(SeenLog, id, sync.startTime, sync.endTime) : Carries(SeenLog[i], k)}

LatestEligible(id, k) ==
    {i \in Eligible(id, k) :
        \A j \in Eligible(id, k) : SeenLog[j].timestamp <= SeenLog[i].timestamp}

\* C12: for each aggregated id and each field, the aggregate value is the
\* value (as the query selects it) of the entry with the greatest timestamp
\* among the entries of the id that are in the window, are not older than
\* the id's latest CREATED entry and carry a non-null value for the field;
\* it is NULL when there is no such entry.
C12_AggregateIsLatestCarried ==
    Queried =>
        \A id \in DOMAIN sync.tmp : \A k \in FieldKeys(sync.idx) :
            IF Eligible(id, k) = {}
            THEN sync.tmp[id][k] = Null
            ELSE sync.tmp[id][k] \in
                    {Selected(sync.idx, SeenLog[i], k) : i \in LatestEligible(id, k)}

\* The row is the earlier row with each field replaced by the aggregate
\* value of the id where that is non-null.
UpdatedFrom(id, earlier, later) ==
    \A k \in FieldKeys(sync.idx) :
        IF sync.tmp[id][k] # Null
        THEN later.data[k] \in LatestNonNull(id, k)
        ELSE later.data[k] = earlier.data[k]

\* C13: after a successful run, each row of an aggregated id that had a row
\* before and has one after is the earlier row updated field by field from
\* the aggregate, whatever the counts; rows of other ids are unchanged.
C13_RowsUpdatedFieldByField ==
    Queried =>
        /\ \A id \in DOMAIN sync.tmp :
              (HasRow(sync.before, id) /\ HasRow(sync.after, id)) =>
                  \A later \in RowsWithId(sync.after, id) :
                      \E earlier \in RowsWithId(sync.before, id) :
                          UpdatedFrom(id, earlier, later)
        /\ \A r \in BagToSet(sync.before) \cup BagToSet(sync.after) :
              r.documentId \notin DOMAIN sync.tmp =>
                  /\ BagIn(r, sync.before) /\ BagIn(r, sync.after)
                  /\ CopiesIn(r, sync.before) = CopiesIn(r, sync.after)

\* The entries of the log the run read whose kind is counted and whose
\* stamp lies in [startTime, endTime).
HalfOpenCount(id, kind) ==
    Cardinality({i \in 1..sync.seen :
        /\ SeenLog[i].documentId = id
        /\ SeenLog[i].changeType = kind
        /\ sync.startTime <= SeenLog[i].timestamp
        /\ SeenLog[i].timestamp < sync.endTime})

\* The entries the previous run of config 1 read and counted that this run
\* counts too.
CountedTwice ==
    {i \in 1..lastRun[1].seen :
        /\ SeenLog[i].changeType \in {"CREATED", "DELETED"}
        /\ Between(SeenLog[i].timestamp, lastRun[1].startTime, lastRun[1].endTime)
        /\ Between(SeenLog[i].timestamp, sync.startTime, sync.endTime)}

\* C14: a run counts the entries stamped in [startTime, endTime), so not
\* one stamped at its endTime, and no entry is counted by two successful
\* runs of a configuration.
C14_WindowsAreHalfOpen ==
    /\ Queried =>
          \A id \in SeenIds :
              /\ createdCount(id) = HalfOpenCount(id, "CREATED")
              /\ deletedCount(id) = HalfOpenCount(id, "DELETED")
    /\ Rerun => CountedTwice = {}

\* The invocation is between reading the checkpoint and writing it.
Running(position) == position.pc \in {"window", "queried"}

\* C15: no two runs of syncTrackerToMainTable for one configuration are
\* both between reading the checkpoint and writing it.
C15_NoConcurrentRuns ==
    ~(Running(sync) /\ Running(overlap) /\ sync.idx = overlap.idx)

----------------------------------------------------------------------------
(* Claims about the scheduled handler's loop (checked under SpecRuns) *)

\* Where the handler is after it leaves configuration c: at the start of
\* the next one in list order, or at its end.
AfterConfig(c, position) ==
    IF c < Len(collectionConfigs)
    THEN position.pc = "start" /\ position.idx = c + 1
    ELSE position.pc = "idle"

\* One step of the handler keeps the order of the list and goes on after a
\* failure.
InListOrder ==
    /\ (sync.pc = "idle" /\ sync' # sync) => (sync'.pc = "start" /\ sync'.idx = 1)
    /\ (sync.pc # "idle" /\ sync'.idx # sync.idx) => AfterConfig(sync.idx, sync')
    /\ (sync.pc # "idle" /\ lastRun'[sync.idx] # lastRun[sync.idx]
            /\ lastRun'[sync.idx].outcome = "failed") => AfterConfig(sync.idx, sync')

\* C16: within one tick the configurations are consolidated one after
\* another in list order, and a failure on one is followed by the attempt
\* on the next one, or by the normal end of the handler after the last.
C16_SequentialAndIsolated == [][InListOrder]_vars

\* The first configuration's run failed after its query, and the second
\* configuration's run is under way.
C16_Witness ==
    /\ lastRun[1].outcome = "failed"
    /\ lastRun[1].endTime = now
    /\ checkpoint[1] = NoCheckpoint
    /\ sync.idx = 2
    /\ sync.pc = "queried"
    /\ sync.endTime = now

----------------------------------------------------------------------------
(* Further claims about handleDocumentWrite (checked under SpecRecorder) *)

\* C17: when the path resolves to no configuration, or the coercion (the
\* transform webhook) or the tracker insert fails, the invocation appends
\* no record to any tracker log.
C17_FailureDropsEvent ==
    (Handled /\ (LastConfig = NoConfig \/ ~lastWrite.ok))
    => \A c \in ConfigIds : Len(tracker[c]) = lastWrite.lens[c]

\* A created or updated post whose coercion or insert failed, with one
\* record in the other log.
C17_Witness ==
    /\ Handled
    /\ LastConfig = 2
    /\ lastWrite.existsAfter
    /\ ~lastWrite.ok
    /\ lastWrite.lens = <<1, 0>>
    /\ Len(tracker[1]) = 1
    /\ Len(tracker[2]) = 0

\* The value of a column as formatDocument leaves it: a STRING column holds
\* a string or null, an ARRAY column an array without falsy elements.
Coerced(track, value) ==
    CASE track.type = "STRING" -> value.tp \in {"string", "null"}
      [] track.type = "ARRAY" ->
            /\ value.tp = "array"
            /\ \A i \in 1..Len(value.v) : Truthy(value.v[i])
      [] OTHER -> TRUE

\* The document id a record for fullPath carries under configuration c.
RecordedId(c, fullPath) ==
    LET parts == Split(fullPath, "/")
        docId == parts[Len(parts)]
    IN  IF collectionConfigs[c].includeParentIdInDocumentId /\ Len(parts) > 2
        THEN parts[Len(parts) - 2] \o "-" \o docId
        ELSE docId

\* C18: a DELETED record carries the change kind, a timestamp and the
\* document id and no field value; a CREATED or UPDATED record carries them
\* and a coerced value for every configured field; the record just appended
\* carries the (parent-prefixed) id of the event's document.
C18_RecordShape ==
    /\ \A c \in ConfigIds : \A i \in 1..Len(tracker[c]) :
          LET row == tracker[c][i] IN
          /\ DOMAIN row = {"changeType", "timestamp", "documentId", "data"}
          /\ row.changeType \in {"CREATED", "UPDATED", "DELETED"}
          /\ row.timestamp \in 0..now
          /\ row.documentId # ""
          /\ IF row.changeType = "DELETED"
             THEN DOMAIN row.data = {}
             ELSE /\ DOMAIN row.data = FieldKeys(c)
                  /\ \A k \in FieldKeys(c) : Coerced(FieldOf(c, k), row.data[k])
    /\ Handled =>
          \A c \in ConfigIds :
              Len(tracker[c]) = lastWrite.lens[c] + 1
              => tracker[c][Len(tracker[c])].documentId = RecordedId(c, lastWrite.fullPath)

\* A created user whose numeric name was coerced to null and whose scalar
\* tag was wrapped, next to a deleted post recorded without field values.
C18_Witness ==
    /\ Len(tracker[1]) = 1
    /\ Len(tracker[2]) = 1
    /\ tracker[1][1].changeType = "CREATED"
    /\ tracker[1][1].data = [name |-> Null, tags |-> Arr(<<Str("a")>>)]
    /\ tracker[2][1].changeType = "DELETED"
    /\ tracker[2][1].documentId = "u1-p1"
    /\ tracker[2][1].data = <<>>

----------------------------------------------------------------------------
(* Which component writes what (checked under Spec) *)

\* Every entry of the log before the step is the same entry after it.
AppendOnly ==
    \A c \in ConfigIds :
        /\ Len(tracker'[c]) >= Len(tracker[c])
        /\ SubSeq(tracker'[c], 1, Len(tracker[c])) = tracker[c]

\* A step of handleDocumentWrite: it records its event and may append.
RecorderStep == tracker' # tracker \/ lastWrite' # lastWrite

\* A step of the backfill: its position moves.
BackfillStep == backfill' # backfill

OwnedWrites ==
    /\ RecorderStep => UNCHANGED <<main, checkpoint>>
    /\ BackfillStep => UNCHANGED <<tracker, checkpoint>>
    /\ checkpoint' # checkpoint =>
          /\ sync.pc = "queried"
          /\ \A c \in ConfigIds : c # sync.idx => checkpoint'[c] = checkpoint[c]
    /\ main' # main => (BackfillStep \/ sync.pc = "window")
    /\ AppendOnly

\* C19: handleDocumentWrite changes no main table and no checkpoint, the
\* backfill changes no tracker log and no checkpoint, a checkpoint is written
\* only by the consolidation that has run its query, a main table is changed
\* only by the backfill or the consolidation query, and no step changes or
\* removes an entry already in a tracker log.
C19_WritesAreOwned == [][OwnedWrites]_vars

\* All three components have written: the backfill its row, the recorder
\* two entries, the consolidation its checkpoint.
C19_Witness ==
    /\ backfill.pc = "done"
    /\ Len(tracker[1]) = 2
    /\ checkpoint[1] # NoCheckpoint
    /\ main[1] # EmptyBag
    /\ lastRun[1].outcome = "ok"

----------------------------------------------------------------------------
(* The backfill alone, on collections of every size up to MaxDocs *)

Digit == <<"1", "2", "3", "4", "5", "6", "7", "8", "9">>

\* A users collection of n documents, in the order of their ids.
UsersOf(n) ==
    [i \in 1..n |-> [ id |-> "u" \o Digit[i], parent |-> "",
                      data |-> [name |-> Str("v1"), tags |-> Arr(<<Str("a")>>)] ]]

\* The posts of user u1, m documents of the collection group.
PostsOf(m) ==
    [i \in 1..m |-> [ id |-> "p" \o Digit[i], parent |-> "u1",
                      data |-> [title |-> Str("t1")] ]]

InitBackfill ==
    \E n \in 0..MaxDocs : \E m \in 0..MaxDocs :
        Start(<<ConfigUsers, ConfigPosts>>, <<UsersOf(n), PostsOf(m)>>)

NextBackfillOnly ==
    \/ InitDispatch
    \/ \E formatted \in SUBSET (1..MaxDocs) : \E response \in TransformResponses :
          \E insertOk \in BOOLEAN : BackfillPage(formatted, response, insertOk)

SpecBackfill == InitBackfill /\ [][NextBackfillOnly]_vars

\* Every page of config c so far was formatted whole and inserted.
Clean(c) == \A j \in 1..Len(pages[c]) : pages[c][j].clean

\* The loop of config c has ended.
Finished(c) ==
    \/ backfill.pc = "done"
    \/ backfill.pc = "paging" /\ backfill.idx > c

\* The id under which the backfill inserts document i of config c.
BackfillId(c, i) == BackfillRow(c, i, <<>>).documentId

\* Document i lies in the slice of one of the pages fetched so far.
Processed(c, i) ==
    \E j \in 1..Len(pages[c]) :
        pages[c][j].first <= i /\ i < pages[c][j].first + batchSize

\* C20: while every coercion and insert of a collection's backfill has
\* succeeded, each page fetched batchSize + 1 documents or all that remain,
\* the first page starts at the first document and each next page at the
\* extra document of the page before it, every document of a processed page
\* has exactly one row and no other document has any, and the loop ends
\* after, and only after, a page of at most batchSize documents, with one
\* row for every document.
C20_EveryDocumentOnce ==
    \A c \in ConfigIds :
        Clean(c) =>
            /\ \A j \in 1..Len(pages[c]) :
                  /\ pages[c][j].first = 1 + (j - 1) * batchSize
                  /\ pages[c][j].fetched =
                        Min(batchSize + 1, Len(store[c]) - pages[c][j].first + 1)
                  /\ j < Len(pages[c]) => pages[c][j].fetched = batchSize + 1
            /\ \A i \in 1..Len(store[c]) :
                  RowCount(main[c], BackfillId(c, i)) = IF Processed(c, i) THEN 1 ELSE 0
            /\ Finished(c) =>
                  /\ Len(pages[c]) >= 1
                  /\ pages[c][Len(pages[c])].fetched <= batchSize
                  /\ \A i \in 1..Len(store[c]) : Processed(c, i)
                  /\ BagCardinality(main[c]) = Len(store[c])

\* Both backfills have ended cleanly on collections of three documents, each
\* after more than one page.
C20_Witness ==
    /\ backfill.pc = "done"
    /\ Clean(1) /\ Clean(2)
    /\ Len(store[1]) = 3 /\ Len(store[2]) = 3
    /\ Len(pages[1]) >= 2
    /\ BagCardinality(main[1]) = 3
    /\ RowCount(main[2], "u1-p2") = 1

\* The documents of the slice of page j of config c.
SliceOf(c, j) ==
    {i \in 1..Len(store[c]) :
        pages[c][j].first <= i /\ i < pages[c][j].first + batchSize}

\* C21: the rows of a page whose bulk insert succeeded are those of the
\* documents of its slice whose coercion succeeded, whatever happened to
\* their siblings: each of them has its row, and a sibling whose coercion
\* failed has none.
C21_SiblingsAreInserted ==
    \A c \in ConfigIds : \A j \in 1..Len(pages[c]) :
        pages[c][j].inserted =>
            \A i \in SliceOf(c, j) :
                RowCount(main[c], BackfillId(c, i)) =
                    IF i \in pages[c][j].formatted THEN 1 ELSE 0

\* The first post's coercion failed, the second post's succeeded and its row
\* was inserted.
C21_Witness ==
    /\ Len(pages[2]) >= 1
    /\ SliceOf(2, 1) = {1, 2}
    /\ pages[2][1].formatted = {2}
    /\ pages[2][1].inserted
    /\ RowCount(main[2], "u1-p2") = 1
    /\ RowCount(main[2], "u1-p1") = 0

\* C22: whatever failed inside its pages, a backfill that has ended has
\* fetched every document of the collection in the slice of one of its pages,
\* each page once and in order.
C22_PaginationGoesOn ==
    \A c \in ConfigIds :
        /\ \A j \in 1..Len(pages[c]) : pages[c][j].first = 1 + (j - 1) * batchSize
        /\ Finished(c) => \A i \in 1..Len(store[c]) : Processed(c, i)

----------------------------------------------------------------------------
(* formatDocument called directly, on one field of every modelled type *)

\* The call rejects: the webhook's fetch or its json() failed, or the
\* callback of trackedKeys.forEach threw for one of the fields.
Rejects(data, config, response, fetchOk) ==
    LET working == IF config.transformUrl # "" THEN response ELSE data
    IN  \/ config.transformUrl # "" /\ ~fetchOk
        \/ \E i \in 1..Len(config.fields) :
              formatValue(config.fields[i], accessor(config.fields[i], working)).tp = "thrown"

\* await formatDocument(data, documentId, config)
FormatCall(data, documentId, config, response, fetchOk) ==
    /\ call' = [ made |-> TRUE,
                 config |-> config,
                 data |-> data,
                 documentId |-> documentId,
                 working |-> IF config.transformUrl # "" THEN response ELSE data,
                 outcome |-> IF Rejects(data, config, response, fetchOk)
                             THEN "rejected" ELSE "resolved",
                 result |-> IF Rejects(data, config, response, fetchOk)
                            THEN <<>>
                            ELSE formatDocument(data, documentId, config, response) ]
    /\ UNCHANGED <<fixed, pages, overlap, now, tracker, main, checkpoint, sync, backfill,
                   lastWrite, lastRun>>

FormatTypes == {"STRING", "ARRAY", "TIMESTAMP", "DATETIME", "JSON"}

\* The field under test next to a plain STRING field.
FormatFields ==
    { << [key |-> "f", type |-> type, method |-> method, formater |-> formater],
         [key |-> "g", type |-> "STRING", method |-> "", formater |-> ""] >> :
        type \in FormatTypes, method \in {"", "length"}, formater \in {"", "/id"} }

FormatConfigs ==
    { [ id |-> "items",
        collectionPaths |-> <<"items">>,
        collectionGroup |-> "",
        includeParentIdInDocumentId |-> include,
        transformUrl |-> url,
        backfill |-> FALSE,
        fields |-> fields ] :
        include \in BOOLEAN, url \in {"", "https://transform"},
        fields \in {fs \in FormatFields : fs[1].formater = "" \/ fs[1].type = "ARRAY"} }

\* Raw values of a Firestore document's field.
RawValues ==
    { Null, Str(""), Str("a"),
      Str("1970-01-02T00:00:00.000Z"), Str("1970-01-01T01:00:01.000+01:00"),
      Str("1970-01-02"), Str("yesterday"),
      Num(0), Num(1000), Bool(FALSE), Bool(TRUE),
      DateOf(1000), TimestampOf(86400000),
      Obj([id |-> Str("x")]),
      Arr(<<>>), Arr(<<Null>>),
      Arr(<<Str("a"), Str(""), Num(0)>>),
      Arr(<<Arr(<<Str(""), Str("a")>>), Str("b")>>),
      Arr(<<Obj([id |-> Str("x")]), Obj([id |-> Arr(<<Arr(<<Str("y")>>), Num(0)>>)])>>) }

\* Documents with the field, with and without a parentId of their own.
FormatDocs ==
    { [f |-> raw, g |-> Str("v1")] : raw \in RawValues }
    \cup { [f |-> raw, g |-> Str("v1"), parentId |-> Str(parent)] :
             raw \in RawValues, parent \in {"", "u1"} }

\* Bodies the webhook answers with.
FormatResponses ==
    { [f |-> raw, g |-> Str("w"), parentId |-> Str("zz")] :
        raw \in {Null, Str("a"), Num(0), Arr(<<Str("a")>>),
                 Arr(<<Arr(<<Str(""), Str("a")>>), Str("b")>>)} }

InitFormat == Start(<<ConfigUsers>>, <<UsersCollection>>)

\* One call on each input.
NextFormat ==
    /\ ~call.made
    /\ \E config \in FormatConfigs : \E data \in FormatDocs :
          IF config.transformUrl = ""
          THEN FormatCall(data, "d1", config, <<>>, TRUE)
          ELSE \/ \E response \in FormatResponses : FormatCall(data, "d1", config, response, TRUE)
               \/ FormatCall(data, "d1", config, <<>>, FALSE)

SpecFormat == InitFormat /\ [][NextFormat]_vars

\* The field of the called configuration with this key.
CalledField(k) ==
    CHOOSE f \in {call.config.fields[i] : i \in 1..Len(call.config.fields)} : f.key = k

\* The coerced value of field k, null when processing the field threw.
Absorbed(k) ==
    LET value == formatValue(CalledField(k), accessor(CalledField(k), call.working))
    IN  IF value.tp = "thrown" THEN Null ELSE value

\* C23: a call for a configuration without transform URL resolves, to a
\* record in which a field whose processing threw is null and every other
\* field has its coerced value.
C23_FieldErrorsAbsorbed ==
    (call.made /\ call.config.transformUrl = "") =>
        /\ call.outcome = "resolved"
        /\ \A k \in {"f", "g"} : call.result.data[k] = Absorbed(k)

\* The parentId the call's input carries, "" when it has none.
InputParentId ==
    IF "parentId" \in DOMAIN call.data THEN call.data.parentId.v ELSE ""

\* C24: the emitted document id is parentId-documentId when the
\* configuration sets includeParentIdInDocumentId and the input as received
\* carries a non-empty parentId, and documentId otherwise, whatever the
\* webhook answered.
C24_DocumentIdFromInput ==
    (call.made /\ call.outcome = "resolved") =>
        call.result.documentId =
            IF call.config.includeParentIdInDocumentId /\ InputParentId # ""
            THEN InputParentId \o "-" \o call.documentId
            ELSE call.documentId

\* The input's parentId is u1, the webhook answered with parentId zz, and
\* the id is u1-d1.
C24_Witness ==
    /\ call.made
    /\ call.outcome = "resolved"
    /\ call.config.includeParentIdInDocumentId
    /\ call.config.transformUrl # ""
    /\ InputParentId = "u1"
    /\ call.working.parentId = Str("zz")
    /\ call.result.documentId = "u1-d1"

\* C25: the coerced value of an ARRAY field is an array, and none of its
\* elements is falsy.
C25_ArrayHasNoFalsyElement ==
    (call.made /\ call.outcome = "resolved" /\ CalledField("f").type = "ARRAY") =>
        /\ call.result.data.f.tp = "array"
        /\ \A i \in 1..Len(call.result.data.f.v) : Truthy(call.result.data.f.v[i])

\* The instant a raw value denotes: a millisecond number, a date string, a
\* native date or timestamp; InvalidDate for every other value.
InstantOf(raw) ==
    CASE raw.tp \in {"number", "date", "timestamp"} -> raw.v
      [] raw.tp = "string" -> DateParse(raw.v)
      [] OTHER -> InvalidDate

\* C26: a TIMESTAMP or DATETIME field without transform whose value denotes
\* an instant (the epoch 0 included) comes out as the ISO-8601 string of that
\* instant, and a null or unparseable value comes out null.
C26_InstantIsKept ==
    (/\ call.made
     /\ call.outcome = "resolved"
     /\ CalledField("f").type \in {"TIMESTAMP", "DATETIME"}
     /\ CalledField("f").method = "")
    => LET raw == accessor(CalledField("f"), call.working)
       IN  call.result.data.f =
              IF InstantOf(raw) = InvalidDate THEN Null
              ELSE Str(toISOString(InstantOf(raw)))

\* C27: a JSON field without transform whose value is an object or an
\* array comes out non-null, as the value's serialization, and a value that
\* is a string, a boolean or a number comes out null.
C27_CompositeJsonIsKept ==
    (/\ call.made
     /\ call.outcome = "resolved"
     /\ CalledField("f").type = "JSON"
     /\ CalledField("f").method = "")
    => LET raw == accessor(CalledField("f"), call.working)
       IN  /\ raw.tp \in {"object", "array"} => call.result.data.f = JSONstringify(raw)
           /\ raw.tp \in {"string", "boolean", "number"} => call.result.data.f = Null

----------------------------------------------------------------------------
(* The recorder on one configuration with several path patterns *)

\* Lists of path patterns: with and without wildcards, a pattern with two
\* wildcards, and a pattern that is not the one the path matches.
ParentPathLists ==
    { <<"items">>,
      <<"a/{p}/b">>,
      <<"items", "a/{p}/b">>,
      <<"a/{p}/b/{q}/c", "a/{p}/b">>,
      <<"k/l/m/{w}/n", "a/{p}/b">>,
      <<"k/l/m/n/o/{w}/q", "a/{p}/b", "a/{p}/b/{q}/c">> }

ParentConfigs ==
    { [ id |-> "nested",
        collectionPaths |-> paths,
        collectionGroup |-> "",
        includeParentIdInDocumentId |-> include,
        transformUrl |-> "",
        backfill |-> FALSE,
        fields |-> << [key |-> "parentId", type |-> "STRING", method |-> "", formater |-> ""] >> ] :
        paths \in ParentPathLists, include \in BOOLEAN }

ParentPaths == {"items/i1", "a/x/b/d1", "a/x/b/y/c/e1"}

\* Change events of documents that have no parentId field of their own.
ParentEvents ==
    { [fullPath |-> path, existsBefore |-> b, existsAfter |-> a,
       data |-> IF a THEN [title |-> Str("t1")] ELSE <<>>] :
        path \in ParentPaths, b \in BOOLEAN, a \in BOOLEAN }

InitParent == \E config \in ParentConfigs : Start(<<config>>, <<UsersCollection>>)

NextParent ==
    /\ TotalLog < MaxRecorded
    /\ \E ev \in ParentEvents : \E insertOk \in BOOLEAN :
          handleDocumentWrite(ev, <<>>, TRUE, insertOk)

SpecParent == InitParent /\ [][NextParent]_vars

\* A segment that is a wildcard: an opening brace, word characters, a
\* closing brace.
IsWildcardSegment(seg) ==
    /\ Len(seg) >= 3
    /\ CharAt(seg, 1) = "{"
    /\ CharAt(seg, Len(seg)) = "}"
    /\ \A k \in 2..(Len(seg) - 1) : CharAt(seg, k) \notin NonWordChars

\* The position of the first wildcard segment of a pattern, 0 when none.
FirstWildcard(pattern) ==
    LET segs == Split(pattern, "/")
        at == {i \in 1..Len(segs) : IsWildcardSegment(segs[i])}
    IN  IF at = {} THEN 0 ELSE CHOOSE i \in at : \A j \in at : i <= j

\* The segment of the path at the wildcard position of the first pattern
\* whose wildcard position exists in the path, "" when there is none.
AlignedParent(paths, fullPath) ==
    LET parts == Split(fullPath, "/")
        aligned == {n \in 1..Len(paths) :
                       FirstWildcard(paths[n]) # 0 /\ FirstWildcard(paths[n]) <= Len(parts)}
    IN  IF aligned = {} THEN ""
        ELSE parts[FirstWildcard(paths[CHOOSE n \in aligned : \A m \in aligned : n <= m])]

----------------------------------------------------------------------------
(* Claims about records that no window reaches (SpecRuns) *)

\* The last run of configuration c is its first successful one.
FirstSuccess(c) ==
    /\ lastRun[c].outcome = "ok"
    /\ lastRun[c].checkpointBefore = NoCheckpoint

\* The records of c stamped before the checkpoint: every later window
\* starts at the checkpoint or after it, so none of them reaches these.
BehindCheckpoint(c) ==
    {i \in 1..Len(tracker[c]) : tracker[c][i].timestamp < checkpoint[c]}

\* The records the last run of c aggregated: those its query could read,
\* stamped within its window.
AggregatedByLastRun(c) ==
    {i \in 1..lastRun[c].seen :
        /\ tracker[c][i].timestamp >= lastRun[c].startTime
        /\ tracker[c][i].timestamp <= lastRun[c].endTime}

\* C29: no record is left behind the checkpoint without having been
\* aggregated: after the first successful run of a configuration, every
\* record stamped before the checkpoint that run wrote was aggregated by it.
C29_NoRecordLeftBehind ==
    \A c \in ConfigIds :
        FirstSuccess(c) => BehindCheckpoint(c) \subseteq AggregatedByLastRun(c)

----------------------------------------------------------------------------
(* The recorder on documents that have a parentId field of their own *)

\* The content of each document: i1 and d1 have a parentId field, i2 has
\* none.
ContentOf(path) ==
    IF path = "items/i2"
    THEN [title |-> Str("t1")]
    ELSE [title |-> Str("t1"), parentId |-> Str("own")]

IdPaths == {"items/i1", "items/i2", "a/x/b/d1"}

IdEvents ==
    { [fullPath |-> path, existsBefore |-> b, existsAfter |-> a,
       data |-> IF a THEN ContentOf(path) ELSE <<>>] :
        path \in IdPaths, b \in BOOLEAN, a \in BOOLEAN }

NextIds ==
    /\ TotalLog < MaxRecorded
    /\ \E ev \in IdEvents : \E insertOk \in BOOLEAN :
          handleDocumentWrite(ev, <<>>, TRUE, insertOk)

SpecIds == InitParent /\ [][NextIds]_vars

\* The records i and j are of the same document: their ids end with the
\* same Firestore document id.
SameDocument(i, j) ==
    LET a == tracker[1][i].documentId
        b == tracker[1][j].documentId
    IN  SubSeq(a, Len(a) - 1, Len(a)) = SubSeq(b, Len(b) - 1, Len(b))

\* C30: the DELETED record of a document carries the document id of the
\* CREATED and UPDATED records of that document.
C30_DeletedIdIsCreatedId ==
    \A i, j \in 1..Len(tracker[1]) :
        ( /\ tracker[1][i].changeType = "DELETED"
          /\ tracker[1][j].changeType # "DELETED"
          /\ SameDocument(i, j) )
        => tracker[1][i].documentId = tracker[1][j].documentId

----------------------------------------------------------------------------
(* Claims about the transaction of a run (SpecRerun) *)

\* The step is the query job of the run under way, ended either way.
QueryStep == sync.pc = "window" /\ sync' # sync

\* The main tables the whole script gives on the log as the job reads it.
WholeReconciliations ==
    { Reconcile(1, main[1], tmp, tracker[1], sync.startTime, sync.endTime) :
        tmp \in TmpTables(1, tracker[1], sync.startTime, sync.endTime) }

\* The query job leaves the main table as the whole script makes it, or,
\* when it fails, as it was.
AllOrNothing ==
    QueryStep =>
        IF sync'.pc = "queried"
        THEN main'[1] \in WholeReconciliations
        ELSE /\ lastRun'[1].outcome = "failed"
             /\ main' = main

\* C31: the insert, delete and update of a run take effect together or not
\* at all: a run whose query job fails leaves the main table as it was, and
\* a job that succeeds leaves it as the whole script makes it.
C31_ReconciliationIsAtomic == [][AllOrNothing]_vars

\* A run whose query job failed on a log that held, before the window was
\* read, a CREATED record of an id without row: the table is still empty.
C31_Witness ==
    /\ lastRun[1].outcome = "failed"
    /\ lastRun[1].endTime > 0
    /\ lastRun[1].seen = 0
    /\ Len(tracker[1]) >= 1
    /\ tracker[1][1].changeType = "CREATED"
    /\ tracker[1][1].timestamp < lastRun[1].endTime
    /\ main[1] = EmptyBag

====
